---------------------------- MODULE Spec2Model ----------------------------
(***************************************************************************)
(* A model of diff_fs: the blob writer (src/src/blob.rs) and the recursive  *)
(* tree builder with its entry/tree serialization (src/src/tree.rs).        *)
(*                                                                         *)
(* Strings and byte buffers are sequences of bytes (0..255).  A hex hash    *)
(* string is the sequence of the ASCII codes of its lowercase hex digits,   *)
(* so that str::cmp is the lexicographic order of the sequences and         *)
(* str::bytes is the sequence itself.                                       *)
(***************************************************************************)
EXTENDS Integers, Sequences, FiniteSets, TLC

(***************************************************************************)
(* Bounds of the model and constants of the program.                        *)
(***************************************************************************)
\* Most nodes (files and directories) below the root of a source directory.
MaxNodes == 3
\* Longest content of a source file handed to write_file_blob.
MaxContentLen == 1
\* 2^16: `length as u16` and `entries_length as u16` keep the low 16 bits.
U16 == 65536
\* A SHA-1 digest printed by format!("{:x}") is 40 hex digits.
HexLen == 40

\* File and directory names (valid UTF-8, so into_string() succeeds).
Names == { <<97>>, <<98, 98>>, <<99>> }
\* Contents of the files of a source directory.
FileContents == { <<104, 105>>, <<111>> }
\* Bytes of the contents of the files handed to write_file_blob.
ContentBytes == { 104, 105 }

VARIABLES
    fs,        \* the source directory: path -> node (a path is a sequence of names)
    pc,        \* position of the top-level create_tree call
    stack,     \* the frames of the recursion, the innermost last
    ret,       \* the tree a recursive call has just returned to its caller
    calls,     \* the invocations of the completion callback, in order
    result,    \* how the top-level call ended
    rootTree,  \* the entries of the tree the top-level call returned
    failure,   \* the failure the build ran into, if any
    hashed,    \* the bytes Tree::calculate_sha1 last fed to the hasher
    store,     \* the object store: its sub-folders and its files
    lastCall,  \* the last write_file_blob call: its source file and outcome
    allOk      \* every write_file_blob call so far returned Ok

vars == << fs, pc, stack, ret, calls, result, rootTree, failure, hashed,
           store, lastCall, allOk >>
buildVars == << fs, pc, stack, ret, calls, result, rootTree, failure, hashed >>
storeVars == << store, lastCall, allOk >>

(***************************************************************************)
(* Byte-level helpers.                                                      *)
(***************************************************************************)
RECURSIVE Flatten(_)
Flatten(ss) == IF ss = << >> THEN << >> ELSE Head(ss) \o Flatten(Tail(ss))

\* All sequences over S of length at most n.
SeqsUpTo(S, n) == UNION { [1..k -> S] : k \in 0..n }

\* u16::to_be_bytes of `n as u16`.
to_be_bytes(n) == << (n % U16) \div 256, n % 256 >>

\* str::cmp: lexicographic comparison of the bytes; -1 Less, 0 Equal, 1 Greater.
StrCmp(s, t) ==
    LET n == IF Len(s) < Len(t) THEN Len(s) ELSE Len(t)
        diff == { i \in 1..n : s[i] # t[i] }
        first == CHOOSE i \in diff : \A j \in diff : i <= j
    IN  IF diff # { }
        THEN (IF s[first] < t[first] THEN -1 ELSE 1)
        ELSE IF Len(s) < Len(t) THEN -1
        ELSE IF Len(s) > Len(t) THEN 1
        ELSE 0

(***************************************************************************)
(* SHA-1, printed as lowercase hex.  The digest is stood in for by a        *)
(* 15-bit polynomial hash of the bytes, spread over HexLen hex digits: a    *)
(* function of the bytes alone, with the length and alphabet of the real    *)
(* digest's text.                                                           *)
(***************************************************************************)
DigestMod(x) == x % 32749

RECURSIVE Pow31(_)
Pow31(k) ==
    IF k = 0 THEN 1
    ELSE LET h == Pow31(k \div 2)
         IN  DigestMod(DigestMod(h * h) * (IF k % 2 = 1 THEN 31 ELSE 1))

RECURSIVE Poly(_)
Poly(s) ==
    IF Len(s) = 0 THEN 0
    ELSE IF Len(s) = 1 THEN s[1] + 1
    ELSE LET m == Len(s) \div 2
             hi == SubSeq(s, 1, m)
             lo == SubSeq(s, m + 1, Len(s))
         IN  DigestMod(Poly(hi) * Pow31(Len(lo)) + Poly(lo))

Digest(bytes) == DigestMod(7 * Pow31(Len(bytes)) + Poly(bytes))

HexDigit(d) == IF d < 10 THEN 48 + d ELSE 87 + d

Pow16(k) == CASE k = 0 -> 1 [] k = 1 -> 16 [] k = 2 -> 256 [] OTHER -> 4096

DigestWord(acc, i) == (acc * (2 * i + 1) + 40503 * i) % U16

Sha1Hex(bytes) ==
    LET acc == Digest(bytes)
    IN  [k \in 1..HexLen |->
            HexDigit((DigestWord(acc, (k - 1) \div 4) \div Pow16(3 - ((k - 1) % 4))) % 16)]

(***************************************************************************)
(* tree.rs: EntryId, Entry, Tree.                                           *)
(***************************************************************************)
\* A file's entry built with the directory variant.
Blob_AsTree(sha1) == [tag |-> "Tree", id |-> sha1]

Blob(sha1) == [tag |-> "Blob", id |-> sha1]
Tree(sha1) == [tag |-> "Tree", id |-> sha1]
Entry(name, oid) == [name |-> name, oid |-> oid]

\* The type order with directories first.
typeOrder_TreeFirst(a, b) ==
    IF a.oid.tag = "Blob" /\ b.oid.tag = "Tree" THEN 1
    ELSE IF a.oid.tag = "Tree" /\ b.oid.tag = "Blob" THEN -1
    ELSE 0

typeOrder(a, b) ==
    IF a.oid.tag = "Blob" /\ b.oid.tag = "Tree" THEN -1
    ELSE IF a.oid.tag = "Tree" /\ b.oid.tag = "Blob" THEN 1
    ELSE 0

get_id(oid) == oid.id

\* The closure handed to sort_by.
EntryCmp(a, b) ==
    IF typeOrder(a, b) # 0 THEN typeOrder(a, b)
    ELSE StrCmp(get_id(a.oid), get_id(b.oid))

\* slice::sort_by is stable: an entry goes after every entry not greater than it.
RECURSIVE InsertSorted(_, _)
InsertSorted(sorted, e) ==
    IF sorted = << >> THEN << e >>
    ELSE IF EntryCmp(Head(sorted), e) <= 0
         THEN << Head(sorted) >> \o InsertSorted(Tail(sorted), e)
         ELSE << e >> \o sorted

RECURSIVE sort_entries(_)
sort_entries(entries) ==
    IF entries = << >> THEN << >>
    ELSE InsertSorted(sort_entries(SubSeq(entries, 1, Len(entries) - 1)),
                      entries[Len(entries)])

KindByte(oid) == IF oid.tag = "Blob" THEN 0 ELSE 1

\* Entry::bytes with the type byte written before the length.
EntryBytes_KindFirst(e) ==
    LET oid == get_id(e.oid)
        length == 2 + 1 + Len(oid) + Len(e.name)
    IN  << KindByte(e.oid) >> \o to_be_bytes(length) \o oid \o e.name

\* Entry::bytes
EntryBytes(e) ==
    LET oid == get_id(e.oid)
        length == 2 + 1 + Len(oid) + Len(e.name)
    IN  to_be_bytes(length) \o << KindByte(e.oid) >> \o oid \o e.name

\* Tree::bytes after its sort: the count, then the entries in their order.
Serialize(entries) ==
    to_be_bytes(Len(entries)) \o Flatten([i \in 1..Len(entries) |-> EntryBytes(entries[i])])

\* Tree::bytes: sorts the entries in place, then serializes them.
TreeBytes(entries) == Serialize(sort_entries(entries))

\* Tree::calculate_sha1 hashing the entries as they stand, unsorted.
TreeSha1_Unsorted(entries) == Sha1Hex(Serialize(entries))

\* Tree::calculate_sha1
TreeSha1(entries) == Sha1Hex(TreeBytes(entries))

(***************************************************************************)
(* The source directory.                                                    *)
(***************************************************************************)
DirNode == [kind |-> "dir", content |-> << >>]
FileNode(c) == [kind |-> "file", content |-> c]
NodeKinds == { DirNode } \cup { FileNode(c) : c \in FileContents }

Extend(t, p, node) == [q \in DOMAIN t \cup { p } |-> IF q \in DOMAIN t THEN t[q] ELSE node]

\* The nodes one more file or empty directory can be added to t as.
Additions(t) ==
    UNION { { Extend(t, Append(p, n), node) :
                n \in { m \in Names : Append(p, m) \notin DOMAIN t },
                node \in NodeKinds } :
            p \in { q \in DOMAIN t : t[q].kind = "dir" } }

Grow(S) == S \cup UNION { Additions(t) : t \in S }

RECURSIVE GrowN(_, _)
GrowN(k, S) == IF k = 0 THEN S ELSE GrowN(k - 1, Grow(S))

RootOnly == [q \in { << >> } |-> DirNode]
AllFs == GrowN(MaxNodes, { RootOnly })


IsPrefixChild(p, q) == Len(q) = Len(p) + 1 /\ SubSeq(q, 1, Len(p)) = p
\* The names fs::read_dir(p) yields.
ChildNames(t, p) == { q[Len(q)] : q \in { r \in DOMAIN t : IsPrefixChild(p, r) } }
DirsOf(t) == { q \in DOMAIN t : t[q].kind = "dir" }
FilesOf(t) == { q \in DOMAIN t : t[q].kind = "file" }
\* q lies strictly inside directory p.
Inside(p, q) == Len(q) > Len(p) /\ SubSeq(q, 1, Len(p)) = p

(***************************************************************************)
(* blob.rs: the object store and write_file_blob.                           *)
(***************************************************************************)
EmptyStore == [dirs |-> { }, files |-> << >>]

\* &hash[..2] and &hash[2..]
subfolder(hash) == SubSeq(hash, 1, 2)
file_name(hash) == SubSeq(hash, 3, Len(hash))
\* subfolder_path.join(file_name), relative to the store root
dst(hash) == << subfolder(hash), file_name(hash) >>

\* blob::calculate_sha1 of a readable file
calculate_sha1(content) == Sha1Hex(content)

\* The source files write_file_blob is handed: a content, and whether
\* File::open and the reads of it succeed.
Contents == SeqsUpTo(ContentBytes, MaxContentLen)
SourceFiles == [content : Contents, readable : BOOLEAN]

NoCall == [file |-> [content |-> << >>, readable |-> TRUE],
           result |-> "none", wrote |-> FALSE, repeat |-> FALSE]

\* The destination is never found to exist.
exists_Never(files, path) == FALSE

\* dst.exists()
exists(files, path) == path \in DOMAIN files

\* A copy that creates the destination and copies no byte.
copy_NoBytes(files, path, content) == Extend(files, path, << >>)

\* std::fs::copy(from, dst) that succeeds
copy(files, path, content) == Extend(files, path, content)

\* The call is over: its outcome is recorded.  repeat is history: the call
\* before this one was given the same file and returned Ok.
Finish(file, res, wrote, after) ==
    /\ store' = after
    /\ lastCall' = [file |-> file, result |-> res, wrote |-> wrote,
                    repeat |-> (lastCall.result = "Ok" /\ lastCall.file = file)]
    /\ allOk' = (allOk /\ res = "Ok")
    /\ UNCHANGED buildVars

\* write_file_blob(from, to).  A failing create_dir_all or copy returns its
\* Err and leaves nothing behind at the path it was to create.
WriteFileBlob ==
    \E file \in SourceFiles, fault \in { "none", "create_dir_all", "copy" } :
        LET hash == calculate_sha1(file.content)
            sub == subfolder(hash)
            path == dst(hash)
            made == [store EXCEPT !.dirs = @ \cup { sub }]
        IN  IF ~file.readable
            THEN Finish(file, "Err", FALSE, store)
            ELSE IF sub \notin store.dirs /\ fault = "create_dir_all"
            THEN Finish(file, "Err", FALSE, store)
            ELSE IF exists(store.files, path)
            THEN Finish(file, "Ok", FALSE, made)
            ELSE IF fault = "copy"
            THEN Finish(file, "Err", FALSE, made)
            ELSE Finish(file, "Ok", TRUE,
                        [made EXCEPT !.files = copy(@, path, file.content)])

(***************************************************************************)
(* tree.rs: create_tree, one action per step of the recursion.              *)
(***************************************************************************)
Frame(path, t) == [path |-> path, pending |-> ChildNames(t, path), entries |-> << >>]
Top == stack[Len(stack)]
SetTop(f) == [stack EXCEPT ![Len(stack)] = f]

\* entries.push(entry)
push(entries, e) == Append(entries, e)

NoTree == [path |-> << >>, entries |-> << >>, inserted |-> << >>]

\* compeleted(&tree, &sha1): the invocation is recorded.  dir and inserted are
\* history: the directory the tree was built from, and its entries as pushed.
compeleted(log, dir, entries, sha1, inserted) ==
    Append(log, [dir |-> dir, tree |-> entries, sha1 |-> sha1, inserted |-> inserted])

\* The build ends without a tree: an Err carried up by `?`, or a panic.
Abort(how, why) ==
    /\ pc' = "done"
    /\ result' = how
    /\ failure' = why
    /\ stack' = << >>
    /\ UNCHANGED << fs, ret, calls, rootTree, hashed, storeVars >>

\* The top-level call: fs::read_dir(path)? on the root (line 107).
Begin ==
    /\ pc = "idle"
    /\ \E ok \in BOOLEAN :
        IF ok
        THEN /\ stack' = << Frame(<< >>, fs) >>
             /\ pc' = "loop"
             /\ UNCHANGED << fs, ret, calls, result, rootTree, failure, hashed, storeVars >>
        ELSE Abort("Err", "read_dir")

\* The iterator yields an Err: entry.unwrap() panics (line 108).
EntryFails ==
    /\ pc = "loop"
    /\ Top.pending # { }
    /\ Abort("Panic", "entry")

\* A child that is not a directory: blob::calculate_sha1(&path)? (lines 117-120).
VisitFile ==
    /\ pc = "loop"
    /\ \E name \in Top.pending, ok \in BOOLEAN :
        LET path == Append(Top.path, name) IN
        /\ fs[path].kind = "file"
        /\ IF ok
           THEN /\ stack' = SetTop([Top EXCEPT
                        !.pending = @ \ { name },
                        !.entries = push(@, Entry(name, Blob(calculate_sha1(fs[path].content))))])
                /\ UNCHANGED << fs, pc, ret, calls, result, rootTree, failure, hashed, storeVars >>
           ELSE Abort("Err", "calculate_sha1")

\* A child that is a directory: the recursive call starts with
\* fs::read_dir(path)? on it (lines 111-112, 107).
VisitDir ==
    /\ pc = "loop"
    /\ \E name \in Top.pending, ok \in BOOLEAN :
        LET path == Append(Top.path, name) IN
        /\ fs[path].kind = "dir"
        /\ IF ok
           THEN /\ stack' = Append(SetTop([Top EXCEPT !.pending = @ \ { name }]),
                                   Frame(path, fs))
                /\ UNCHANGED << fs, pc, ret, calls, result, rootTree, failure, hashed, storeVars >>
           ELSE Abort("Err", "read_dir")

\* The loop is over (lines 122-125): the tree is hashed, which sorts it, the
\* callback is invoked, and the tree is returned.
ReturnTree ==
    /\ pc = "loop"
    /\ Top.pending = { }
    /\ LET sha1 == TreeSha1(Top.entries)
           tree == sort_entries(Top.entries)
       IN  /\ calls' = compeleted(calls, Top.path, tree, sha1, Top.entries)
           /\ hashed' = TreeBytes(Top.entries)
           /\ stack' = SubSeq(stack, 1, Len(stack) - 1)
           /\ IF Len(stack) = 1
              THEN /\ pc' = "done"
                   /\ result' = "Ok"
                   /\ rootTree' = tree
                   /\ ret' = ret
              ELSE /\ pc' = "returned"
                   /\ ret' = [path |-> Top.path, entries |-> tree, inserted |-> Top.entries]
                   /\ UNCHANGED << result, rootTree >>
    /\ UNCHANGED << fs, failure, storeVars >>

\* Back in the caller (lines 113-116): the returned tree is hashed again, the
\* callback is invoked with it, and its entry is pushed.
AfterReturn ==
    /\ pc = "returned"
    /\ LET sha1 == TreeSha1(ret.entries)
           tree == sort_entries(ret.entries)
           name == ret.path[Len(ret.path)]
       IN  /\ calls' = compeleted(calls, ret.path, tree, sha1, ret.inserted)
           /\ hashed' = TreeBytes(ret.entries)
           /\ stack' = SetTop([Top EXCEPT !.entries = push(@, Entry(name, Tree(sha1)))])
    /\ pc' = "loop"
    /\ ret' = NoTree
    /\ UNCHANGED << fs, result, rootTree, failure, storeVars >>

Init ==
    /\ fs \in AllFs
    /\ pc = "idle"
    /\ stack = << >>
    /\ ret = NoTree
    /\ calls = << >>
    /\ result = "none"
    /\ rootTree = << >>
    /\ failure = "none"
    /\ hashed = << >>
    /\ store = EmptyStore
    /\ lastCall = NoCall
    /\ allOk = TRUE

Next ==
    \/ Begin
    \/ EntryFails
    \/ VisitFile
    \/ VisitDir
    \/ ReturnTree
    \/ AfterReturn

Spec == Init /\ [][Next]_vars

\* The blob writer on its own, from an empty store.
StoreInit ==
    /\ Init
    /\ fs = RootOnly

StoreNext == WriteFileBlob

StoreSpec == StoreInit /\ [][StoreNext]_vars


(***************************************************************************)
(* Vocabulary of the claims.                                                *)
(***************************************************************************)
CallIdx == 1..Len(calls)
\* The callback's latest invocation.  The log only grows, so what holds of the
\* latest invocation in every state holds of every invocation.
LastCall == calls[Len(calls)]
Finished == pc = "done" /\ result = "Ok"

\* The names of a set, in ascending order.
RECURSIVE NameSeq(_)
NameSeq(S) ==
    IF S = { } THEN << >>
    ELSE LET least == CHOOSE n \in S : \A m \in S : StrCmp(n, m) <= 0
         IN  << least >> \o NameSeq(S \ { least })

\* The entries of directory p of t when every directory is enumerated in
\* ascending order of the names.
RECURSIVE ByNameEntries(_, _)
ByNameEntries(t, p) ==
    LET names == NameSeq(ChildNames(t, p))
    IN  [i \in 1..Len(names) |->
            LET q == Append(p, names[i])
            IN  IF t[q].kind = "file"
                THEN Entry(names[i], Blob(Sha1Hex(t[q].content)))
                ELSE Entry(names[i], Tree(Sha1Hex(TreeBytes(ByNameEntries(t, q)))))]

\* C1: every successful build of a directory, whatever the order its
\* directories were enumerated in, ends with the root hash of the build that
\* enumerates them by name: the root hash does not depend on the order.
C1_RootHashIndependentOfOrder ==
    Finished => LastCall.sha1 = Sha1Hex(TreeBytes(ByNameEntries(fs, << >>)))

\* C2: in a successful build the callback is invoked exactly once for every
\* directory of the subtree, the root included, and for nothing else.
C2_CallbackOncePerDirectory ==
    Finished =>
        /\ \A d \in DirsOf(fs) : Cardinality({ i \in CallIdx : calls[i].dir = d }) = 1
        /\ \A i \in CallIdx : calls[i].dir \in DirsOf(fs)
        /\ Len(calls) = Cardinality(DirsOf(fs))

\* C3: after a successful build every regular file under the directory has
\* its blob in the store, at <hash[0:2]>/<hash[2:]>.
C3_BlobsStored ==
    Finished => \A f \in FilesOf(fs) : dst(Sha1Hex(fs[f].content)) \in DOMAIN store.files

\* The value of a lowercase hex digit, and the bytes a hex string decodes to.
HexVal(c) == IF c < 58 THEN c - 48 ELSE c - 87
HexDecode(h) == [i \in 1..(Len(h) \div 2) |-> 16 * HexVal(h[2 * i - 1]) + HexVal(h[2 * i])]
Be16(n) == << n \div 256, n % 256 >>

\* The layout as claimed: kind, record length, raw hash bytes, name.
ClaimedEntry(e) ==
    LET raw == HexDecode(e.oid.id)
    IN  << KindByte(e.oid) >> \o Be16(3 + Len(raw) + Len(e.name)) \o raw \o e.name
ClaimedTree(entries) ==
    Be16(Len(entries)) \o Flatten([i \in 1..Len(entries) |-> ClaimedEntry(entries[i])])

RECURSIVE ReadEntries(_, _)
ReadEntries(bytes, n) ==
    IF n = 0 \/ Len(bytes) < 3 + HexLen THEN << >>
    ELSE LET length == bytes[1] * 256 + bytes[2]
         IN  << [length |-> length,
                 kind |-> bytes[3],
                 oid |-> SubSeq(bytes, 4, 3 + HexLen),
                 name |-> SubSeq(bytes, 4 + HexLen, length)] >>
             \o ReadEntries(SubSeq(bytes, length + 1, Len(bytes)), n - 1)

RECURSIVE SumLengths(_)
SumLengths(rs) == IF rs = << >> THEN 0 ELSE Head(rs).length + SumLengths(Tail(rs))

C5_FailureReturnedAsErr ==
    failure # "none" => (pc = "done" /\ stack = << >> /\ result = "Err")

\* The files of the store that hold the given content.
FilesHolding(st, content) == { p \in DOMAIN st.files : st.files[p] = content }

\* C6: a write_file_blob call given the file the call before it was given,
\* that call having returned Ok, returns Ok, writes nothing and leaves the
\* store as it was, with exactly one file holding the content.
C6_SecondWriteIsNoOp ==
    [][(lastCall.result = "Ok" /\ lastCall'.file = lastCall.file)
        => /\ lastCall'.result = "Ok"
           /\ ~lastCall'.wrote
           /\ store' = store
           /\ Cardinality(FilesHolding(store', lastCall.file.content)) = 1]_vars

C6_Witness ==
    /\ lastCall.repeat
    /\ lastCall.result = "Ok"
    /\ ~lastCall.wrote
    /\ Cardinality(DOMAIN store.files) >= 2

\* Every file of the store sits at <h[0:2]>/<h[2:]>, h the hash of its content.
StoreWellFormed(st) ==
    \A p \in DOMAIN st.files :
        /\ Len(p) = 2
        /\ Len(p[1]) = 2
        /\ p[1] \o p[2] = Sha1Hex(st.files[p])
        /\ p[1] \in st.dirs

\* The call that has just written stored the bytes of its source file.
WrittenAsRead(st, call) ==
    call.wrote =>
        \E p \in DOMAIN st.files :
            /\ p[1] \o p[2] = Sha1Hex(call.file.content)
            /\ st.files[p] = call.file.content

\* C7: from an empty store, as long as every call returned Ok, each stored
\* file sits at the path of the hash of its own content and holds the bytes
\* of the source file written; and no call changes or removes a stored file.
C7_StoreInvariant ==
    [][/\ allOk' => (StoreWellFormed(store') /\ WrittenAsRead(store', lastCall'))
       /\ \A p \in DOMAIN store.files :
            p \in DOMAIN store'.files /\ store'.files[p] = store.files[p]]_vars

C7_Witness ==
    /\ allOk
    /\ Cardinality(DOMAIN store.files) >= 2
    /\ Cardinality(store.dirs) >= 2
    /\ lastCall.result = "Ok"
    /\ ~lastCall.wrote

\* The order of two hex strings of one length.
HexLess(s, t) ==
    \E k \in 1..Len(s) : s[k] < t[k] /\ \A j \in 1..(k - 1) : s[j] = t[j]

SameKey(a, b) == a.oid.tag = b.oid.tag /\ a.oid.id = b.oid.id

\* Blobs before trees; within a kind, the hex hashes do not decrease.
KindThenHash(tree) ==
    \A i, j \in 1..Len(tree) :
        i < j =>
            /\ ~(tree[i].oid.tag = "Tree" /\ tree[j].oid.tag = "Blob")
            /\ tree[i].oid.tag = tree[j].oid.tag
                 => (tree[i].oid.id = tree[j].oid.id \/ HexLess(tree[i].oid.id, tree[j].oid.id))

\* tree is inserted rearranged, entries of one kind and hash left in the
\* order they were pushed in: nothing but kind and hash decides the order.
RearrangedByKeyOnly(inserted, tree) ==
    /\ Len(tree) = Len(inserted)
    /\ \E f \in Permutations(1..Len(tree)) :
        /\ \A i \in 1..Len(tree) : tree[i] = inserted[f[i]]
        /\ \A i, j \in 1..Len(tree) :
            (i < j /\ SameKey(tree[i], tree[j])) => f[i] < f[j]

\* C8: every tree handed to the callback and the tree returned are sorted:
\* blobs before trees whatever the names, within a kind by hex hash, and the
\* name plays no part.
C8_SortOrder ==
    /\ calls # << >> =>
        /\ KindThenHash(LastCall.tree)
        /\ RearrangedByKeyOnly(LastCall.inserted, LastCall.tree)
    /\ Finished => KindThenHash(rootTree)

C8_Witness ==
    \E c \in CallIdx :
        /\ calls[c].tree # calls[c].inserted
        /\ \E i, j \in 1..Len(calls[c].inserted) :
            /\ i < j
            /\ calls[c].inserted[i].oid.tag = "Tree"
            /\ calls[c].inserted[j].oid.tag = "Blob"
            /\ StrCmp(calls[c].inserted[i].name, calls[c].inserted[j].name) < 0
        /\ \E i, j \in 1..Len(calls[c].tree) :
            /\ i < j
            /\ SameKey(calls[c].tree[i], calls[c].tree[j])
            /\ StrCmp(calls[c].tree[i].name, calls[c].tree[j].name) > 0

\* tree has exactly one entry per direct child of directory p: a Blob of the
\* content's hash for a file, a Tree of the hash the child's tree was given
\* for a directory, each under the child's name.
EntriesMatchChildren(p, tree) ==
    /\ Len(tree) = Cardinality(ChildNames(fs, p))
    /\ \A n \in ChildNames(fs, p) :
        \E i \in 1..Len(tree) :
            /\ tree[i].name = n
            /\ IF fs[Append(p, n)].kind = "file"
               THEN tree[i].oid = [tag |-> "Blob", id |-> Sha1Hex(fs[Append(p, n)].content)]
               ELSE /\ tree[i].oid.tag = "Tree"
                    /\ \E j \in CallIdx :
                        /\ calls[j].dir = Append(p, n)
                        /\ calls[j].sha1 = tree[i].oid.id

\* C9: the tree a successful create_tree returns, to the top-level caller or
\* to the call that recursed, has exactly one entry per direct child.
C9_OneEntryPerChild ==
    /\ Finished => EntriesMatchChildren(<< >>, rootTree)
    /\ pc = "returned" => EntriesMatchChildren(ret.path, ret.entries)

C9_Witness ==
    /\ Finished
    /\ Len(rootTree) = 3
    /\ Cardinality({ i \in 1..3 : rootTree[i].oid.tag = "Tree" }) = 2

\* C10: a directory's callback comes after the callbacks of every directory
\* inside it, the root's callback is the last of a successful build, and each
\* invocation is given a sorted tree and the hash of its serialization.
C10_PostOrder ==
    /\ calls # << >> =>
        /\ \A q \in DirsOf(fs) :
            Inside(LastCall.dir, q) => \E j \in 1..(Len(calls) - 1) : calls[j].dir = q
        /\ LastCall.sha1 = Sha1Hex(Serialize(LastCall.tree))
        /\ KindThenHash(LastCall.tree)
    /\ Finished =>
        /\ LastCall.dir = << >>
        /\ \A i \in 1..(Len(calls) - 1) : calls[i].dir # << >>

C10_Witness ==
    /\ Finished
    /\ \E q \in DirsOf(fs) : Len(q) = 2 /\ ChildNames(fs, q) # { }

=============================================================================
